---- MODULE Spec2Model ----
(***************************************************************************)
(* taildog: the polling / pagination / de-duplication loop of main().      *)
(*                                                                         *)
(* Two revisions of the program are in the source tree: src/main.go and    *)
(* src/unnamed/part_000.  They share main() and the novelty filter and     *)
(* differ in config.update (how `from` is advanced).  The variable         *)
(* `variant` selects the revision; every property is checked for both.     *)
(*                                                                         *)
(* Instants (time.Time) are integers, in milliseconds.  Timestamp strings  *)
(* (RFC 3339 with a fractional part) are pairs <<seconds, milliseconds>>;  *)
(* the empty string of the -from / -to flags is NoTime.                    *)
(***************************************************************************)
EXTENDS Integers, Sequences, FiniteSets, TLC

(* ---- bounds of the model ---------------------------------------------- *)
NumIds     == 2      \* distinct log records the API knows
MaxPageLen == 2      \* longest page the API returns (stands for -l)
MaxFetches == 3      \* requests issued in one run before the model stops

(* ---- constants of the program ------------------------------------------ *)
Second          == 1000   \* time.Second in model units (ms)
DefaultInterval == 15     \* flag -i
InitialLookback == 30     \* follow mode starts 30 seconds ago

(* ---- environment -------------------------------------------------------- *)
NoTime    == <<>>                  \* "" of the -from / -to flags
StartTime == 100 * Second          \* time.Now() when the process starts
RequestLatency == Second \div 4    \* wall-clock time one HTTP round trip takes
Ids       == 1 .. NumIds
\* nextLogId is "" (no more pages) or an opaque token; the API hands out a
\* fresh token with every page: the k-th answer of a run carries CursorNames[k]
CursorNames == <<"c1", "c2", "c3", "c4", "c5", "c6", "c7", "c8">>
Cursors(k) == {"", CursorNames[k]}
Variants  == {"main.go", "part_000"}
FixedTimes == {<<60, 0>>, <<90, 0>>}   \* values given to -from / -to

\* t.Format(time.RFC3339Nano): seconds and the fractional part
formatTime(t) == <<t \div Second, t % Second>>

\* time.Parse(time.RFC3339, str): a fractional part in the input is accepted.
\* The API only sends well-formed timestamps, so err is set for "" alone.
parseTime(str) ==
    IF Len(str) = 2 THEN [err |-> FALSE, t |-> str[1] * Second + str[2]]
    ELSE [err |-> TRUE, t |-> 0]

\* the instant a well-formed timestamp string denotes
Instant(str) == parseTime(str).t

\* instant of record i in the log store (ascending in i)
TsOf(i) == StartTime - 20 * Second + i * 6500

Min(a, b) == IF a <= b THEN a ELSE b

\* Go integer division truncates toward zero
Quot(a, b) == IF a >= 0 THEN a \div b ELSE -((-a) \div b)

logInfo(i) == [Id |-> i, Timestamp |-> formatTime(TsOf(i))]

emptyLogsInfo == [Logs |-> <<>>, NextLogId |-> ""]

\* sequences of ids of length n
RECURSIVE IdSeqs(_)
IdSeqs(n) ==
    IF n = 0 THEN {<<>>}
    ELSE {Append(s, i) : s \in IdSeqs(n - 1), i \in Ids}

IsAsc(s) == \A k \in 1 .. Len(s) - 1 : s[k] < s[k + 1]

\* every page the API may give as the nth answer of a run to a request with
\* the given limit: at most `lim` distinct records in ascending order
\* (sort = "asc"), with or without a continuation token
Pages(lim, nth) ==
    { [Logs |-> [k \in 1 .. Len(s) |-> logInfo(s[k])], NextLogId |-> c] :
        s \in { t \in UNION { IdSeqs(n) : n \in 0 .. Min(lim, MaxPageLen) } : IsAsc(t) },
        c \in Cursors(nth) }

VARIABLES
    pc,        \* position of main(): "main","showLogs","sleep","update","exit"
    variant,   \* which revision of the program runs
    flags,     \* command line and environment
    cfg,       \* *config
    logs,      \* main's local `logs`
    now,       \* wall clock
    hist,      \* one entry per request: the request, the answer, what was printed
    events,    \* order of "fetch" / "sleep" / "update" steps of the run
    exitCode   \* -1 while running, then the exit status

vars == <<pc, variant, flags, cfg, logs, now, hist, events, exitCode>>

NoCfg == [query |-> "", from |-> NoTime, to |-> NoTime, limit |-> 0,
          follow |-> FALSE, lastInfo |-> emptyLogsInfo]

FlagSets ==
    [query : {"service:my-app"},
     interval : {DefaultInterval},
     limit : {MaxPageLen},
     fromStr : {NoTime} \cup FixedTimes,
     toStr : {NoTime} \cup FixedTimes,
     versionFlg : BOOLEAN,
     apiKey : BOOLEAN,
     appKey : BOOLEAN]

Init ==
    /\ pc = "main"
    /\ variant \in Variants
    /\ flags \in FlagSets
    /\ cfg = NoCfg
    /\ logs = emptyLogsInfo
    /\ now = StartTime
    /\ hist = <<>>
    /\ events = <<>>
    /\ exitCode = -1

(* ---- newConfig ---------------------------------------------------------- *)
\* faulty check: only "to without from" is rejected
newConfigErrToOnly(f) == f.fromStr = NoTime /\ f.toStr # NoTime

\* "both 'from' and 'to' must be set"
newConfigErr(f) ==
    \/ (f.fromStr = NoTime /\ f.toStr # NoTime)
    \/ (f.fromStr # NoTime /\ f.toStr = NoTime)

\* faulty newConfig: follow is set although from and to were given
newConfigAlwaysFollow(f, t) ==
    [query |-> f.query,
     from |-> IF f.fromStr = NoTime THEN formatTime(t - InitialLookback * Second) ELSE f.fromStr,
     to |-> IF f.toStr = NoTime THEN formatTime(t) ELSE f.toStr,
     limit |-> f.limit,
     follow |-> TRUE,
     lastInfo |-> emptyLogsInfo]

newConfig(f, t) ==
    LET fw == f.fromStr = NoTime /\ f.toStr = NoTime IN
    [query |-> f.query,
     from |-> IF fw THEN formatTime(t - InitialLookback * Second) ELSE f.fromStr,
     to |-> IF fw THEN formatTime(t) ELSE f.toStr,
     limit |-> f.limit,
     follow |-> fw,
     lastInfo |-> emptyLogsInfo]

\* faulty error handling: the error is returned from main, exit status 0
FatalReturns ==
    /\ pc' = "exit"
    /\ exitCode' = 0

\* log.Fatal / log.Fatalf: the process exits with status 1
Fatal ==
    /\ pc' = "exit"
    /\ exitCode' = 1

\* faulty getEnv: only DD_API_KEY is required
getEnvErrApiOnly(f) == ~f.apiKey

\* getEnv("DD_API_KEY"), getEnv("DD_APP_KEY"): a variable is not set
getEnvErr(f) == ~f.apiKey \/ ~f.appKey

\* main() up to the first showLogs: flag.Parse, -version, newConfig
Main ==
    /\ pc = "main"
    /\ IF flags.versionFlg
         THEN /\ pc' = "exit" /\ exitCode' = 0 /\ UNCHANGED cfg
         ELSE IF getEnvErr(flags) \/ newConfigErr(flags)
         THEN /\ Fatal /\ UNCHANGED cfg
         ELSE /\ cfg' = newConfig(flags, now)
              /\ pc' = "showLogs"
              /\ exitCode' = exitCode
    /\ UNCHANGED <<variant, flags, logs, now, hist, events>>

(* ---- showLogs / getLogs ------------------------------------------------- *)
\* faulty request: newest records first
reqBodyDesc(c) ==
    [query |-> c.query, limit |-> c.limit, from |-> c.from, to |-> c.to,
     sort |-> "desc", startAt |-> c.lastInfo.NextLogId]

\* faulty request: the continuation cursor is never sent
reqBodyNoStartAt(c) ==
    [query |-> c.query, limit |-> c.limit, from |-> c.from, to |-> c.to,
     sort |-> "asc", startAt |-> ""]

\* the request body; startAt = "" stands for "no startAt key"
reqBody(c) ==
    [query |-> c.query, limit |-> c.limit, from |-> c.from, to |-> c.to,
     sort |-> "asc", startAt |-> c.lastInfo.NextLogId]

\* faulty filter: with an empty previous page nothing is appended, as if
\* the empty lastInfo were nil
logsToDisplayNoneOnEmpty(newLogs, lastLogs) ==
    IF Len(lastLogs) = 0 THEN <<>>
    ELSE SelectSeq(newLogs, LAMBDA l : \A k \in 1 .. Len(lastLogs) : l.Id # lastLogs[k].Id)

\* faulty filter: only the last record of the previous page is compared
logsToDisplayLastOnly(newLogs, lastLogs) ==
    SelectSeq(newLogs, LAMBDA l : Len(lastLogs) = 0 \/ l.Id # lastLogs[Len(lastLogs)].Id)

\* FilterLoop: the records of the new page whose Id is not in lastLogs
logsToDisplay(newLogs, lastLogs) ==
    SelectSeq(newLogs, LAMBDA l : \A k \in 1 .. Len(lastLogs) : l.Id # lastLogs[k].Id)

\* faulty loop: the body starts with cfg.update, the sleep is missing
loopHeadNoSleep(c) == IF c.follow THEN "update" ELSE "exit"

\* faulty loop: the loop is never entered
loopHeadNever(c) == "exit"

\* faulty loop: `for { ... }` regardless of cfg.follow
loopHeadAlways(c) == "sleep"

\* `for cfg.follow`: where main goes after a successful showLogs
loopHead(c) == IF c.follow THEN "sleep" ELSE "exit"

\* what the run leaves behind for one call of showLogs: the request and when
\* it was sent, how the call ended ("" / "fetch" / "render"), the decoded
\* page, and the records written to stdout
histEntry(req, err, page, shown) ==
    [req |-> req, at |-> now, err |-> err, page |-> page, shown |-> shown]

\* showLogs succeeds: request, page decoded, filtered, every record printed
ShowLogs ==
    /\ pc = "showLogs"
    /\ Len(hist) < MaxFetches
    /\ \E page \in Pages(cfg.limit, Len(hist) + 1) :
         /\ hist' = Append(hist, histEntry(reqBody(cfg), "", page,
                                           logsToDisplay(page.Logs, cfg.lastInfo.Logs)))
         /\ logs' = page
    /\ pc' = loopHead(cfg)
    /\ exitCode' = IF pc' = "exit" THEN 0 ELSE exitCode
    /\ events' = Append(events, "fetch")
    /\ now' = now + RequestLatency
    /\ UNCHANGED <<variant, flags, cfg>>

\* showLogs fails before anything is printed: transport error, non-2xx
\* status or undecodable body; main calls log.Fatal
ShowLogsFetchError ==
    /\ pc = "showLogs"
    /\ Len(hist) < MaxFetches
    /\ hist' = Append(hist, histEntry(reqBody(cfg), "fetch", emptyLogsInfo, <<>>))
    /\ Fatal
    /\ events' = Append(events, "fetch")
    /\ now' = now + RequestLatency
    /\ UNCHANGED <<variant, flags, cfg, logs>>

\* showLogs fails while printing: a template fails on the k-th new record
\* after the first k-1 were written
ShowLogsRenderError ==
    /\ pc = "showLogs"
    /\ Len(hist) < MaxFetches
    /\ \E page \in Pages(cfg.limit, Len(hist) + 1) :
         LET disp == logsToDisplay(page.Logs, cfg.lastInfo.Logs) IN
         \E k \in 1 .. Len(disp) :
            hist' = Append(hist, histEntry(reqBody(cfg), "render", page,
                                          SubSeq(disp, 1, k - 1)))
    /\ Fatal
    /\ events' = Append(events, "fetch")
    /\ now' = now + RequestLatency
    /\ UNCHANGED <<variant, flags, cfg, logs>>

(* ---- the follow loop ---------------------------------------------------- *)
\* faulty duration: time.Duration(*interval) without the unit
sleepDurationNoUnit(interval) == interval

\* time.Duration(*interval) * time.Second
sleepDuration(interval) == interval * Second

\* faulty loop body: cfg.update is missing after the sleep
SleepNoUpdate ==
    /\ pc = "sleep"
    /\ now' = now + sleepDuration(flags.interval)
    /\ events' = Append(events, "sleep")
    /\ pc' = "showLogs"
    /\ UNCHANGED <<variant, flags, cfg, logs, hist, exitCode>>

\* time.Sleep(interval seconds)
Sleep ==
    /\ pc = "sleep"
    /\ now' = now + sleepDuration(flags.interval)
    /\ events' = Append(events, "sleep")
    /\ pc' = "update"
    /\ UNCHANGED <<variant, flags, cfg, logs, hist, exitCode>>

\* faulty nextFrom: one millisecond after the last record
nextFromPlusEpsilon(info) ==
    formatTime(Instant(info.Logs[Len(info.Logs)].Timestamp) + 1)

\* the new `from` after a page without nextLogId, src/main.go: the last
\* record's timestamp string, verbatim
nextFrom(info) == info.Logs[Len(info.Logs)].Timestamp

\* faulty look-back: the 30 s of the first window instead of interval/2
nextFromInitialLookback(info, interval) ==
    LET p == parseTime(info.Logs[Len(info.Logs)].Timestamp) IN
    [err |-> p.err,
     from |-> formatTime(p.t - InitialLookback * Second)]

\* the same in src/unnamed/part_000: parsed, moved back by interval/2
\* seconds (integer division), formatted again
nextFromHalfInterval(info, interval) ==
    LET p == parseTime(info.Logs[Len(info.Logs)].Timestamp) IN
    [err |-> p.err,
     from |-> formatTime(p.t + Quot(-interval, 2) * Second)]

\* faulty update: the previous page is merged with the new one
updateMerging(c, info, t) ==
    LET merged == [info EXCEPT !.Logs = c.lastInfo.Logs \o info.Logs] IN
    IF info.NextLogId # ""
      THEN [c EXCEPT !.lastInfo = merged]
      ELSE [c EXCEPT !.lastInfo = merged,
                     !.from = IF Len(info.Logs) # 0
                                THEN info.Logs[Len(info.Logs)].Timestamp ELSE @,
                     !.to = formatTime(t)]

\* config.update of src/main.go
update(c, info, t) ==
    IF info.NextLogId # ""
      THEN [c EXCEPT !.lastInfo = info]
      ELSE [c EXCEPT !.lastInfo = info,
                     !.from = IF Len(info.Logs) # 0 THEN nextFrom(info) ELSE @,
                     !.to = formatTime(t)]

\* faulty update: `to` is refreshed only when the page had records
updateHalfIntervalStaleTo(c, info, t, interval) ==
    IF info.NextLogId # "" \/ Len(info.Logs) = 0
      THEN [err |-> FALSE, cfg |-> [c EXCEPT !.lastInfo = info]]
      ELSE [err |-> nextFromHalfInterval(info, interval).err,
            cfg |-> [c EXCEPT !.lastInfo = info,
                              !.from = nextFromHalfInterval(info, interval).from,
                              !.to = formatTime(t)]]

\* config.update of src/unnamed/part_000; err: parseTime failed, in which
\* case lastInfo is already replaced and from/to are left alone
updateHalfInterval(c, info, t, interval) ==
    IF info.NextLogId # ""
      THEN [err |-> FALSE, cfg |-> [c EXCEPT !.lastInfo = info]]
    ELSE IF Len(info.Logs) # 0 /\ nextFromHalfInterval(info, interval).err
      THEN [err |-> TRUE, cfg |-> [c EXCEPT !.lastInfo = info]]
    ELSE [err |-> FALSE,
          cfg |-> [c EXCEPT !.lastInfo = info,
                            !.from = IF Len(info.Logs) # 0
                                       THEN nextFromHalfInterval(info, interval).from
                                       ELSE @,
                            !.to = formatTime(t)]]

\* cfg.update(logs) in the loop of main
Update ==
    /\ pc = "update"
    /\ LET r == IF variant = "main.go"
                  THEN [err |-> FALSE, cfg |-> update(cfg, logs, now)]
                  ELSE updateHalfInterval(cfg, logs, now, flags.interval) IN
       /\ cfg' = r.cfg
       /\ IF r.err THEN Fatal
                   ELSE pc' = "showLogs" /\ exitCode' = exitCode
    /\ events' = Append(events, "update")
    /\ UNCHANGED <<variant, flags, logs, now, hist>>

Next ==
    \/ Main
    \/ ShowLogs
    \/ ShowLogsFetchError
    \/ ShowLogsRenderError
    \/ Sleep
    \/ Update

Spec == Init /\ [][Next]_vars

\* main is one sequential thread: whenever it has a next step, it takes it
\* (time.Sleep returns, cfg.update returns, showLogs returns with a page or
\* with an error)
FairSpec == Spec /\ WF_vars(Next)

(* ======================================================================= *)
(* Properties                                                              *)
(* ======================================================================= *)
Range(sq) == {sq[k] : k \in 1 .. Len(sq)}

IdsOf(recs) == {recs[k].Id : k \in 1 .. Len(recs)}

\* ids written to stdout by the k-th call of showLogs
ShownIds(k) == [j \in 1 .. Len(hist[k].shown) |-> hist[k].shown[j].Id]

\* how many times record i was written to stdout during the run
TimesRendered(i) ==
    Cardinality({<<k, j>> \in (1 .. Len(hist)) \X (1 .. MaxPageLen) :
                    j <= Len(hist[k].shown) /\ hist[k].shown[j].Id = i})

\* the page the k-th call is filtered against according to the
\* specification: the page fetched immediately before it, none for the first
PrevLogs(k) == IF k = 1 THEN <<>> ELSE hist[k - 1].page.Logs

\* C1: over the whole run no record id is written to stdout more than once,
\* whatever pages the API returns.
C1_NoIdRenderedTwice == \A i \in Ids : TimesRendered(i) <= 1

\* C2: for every page that was fetched and printed without error, the
\* records printed are exactly the records of the page whose id does not
\* occur in the immediately preceding fetched page, in page order; for the
\* first page, all of them.
C2_NoveltyFilter ==
    \A k \in 1 .. Len(hist) :
        hist[k].err = "" =>
            hist[k].shown =
                SelectSeq(hist[k].page.Logs,
                          LAMBDA l : l.Id \notin IdsOf(PrevLogs(k)))

\* C2 witness: page [1] followed by page [1,2] printed 1 and then only 2.
C2_Witness ==
    /\ Len(hist) >= 2
    /\ hist[1].err = "" /\ hist[2].err = ""
    /\ ShownIds(1) = <<1>>
    /\ IdsOf(hist[2].page.Logs) = {1, 2}
    /\ ShownIds(2) = <<2>>

\* C3: the dedup horizon is one page.  For three consecutive pages P1, P2,
\* P3 a record of P3 that is in P2 is not printed, and a record of P3 that is
\* in P1 but not in P2 is printed again.
C3_DedupHorizonOnePage ==
    \A k \in 3 .. Len(hist) :
        hist[k].err = "" =>
            \A i \in IdsOf(hist[k].page.Logs) :
                /\ i \in IdsOf(hist[k - 1].page.Logs) => i \notin Range(ShownIds(k))
                /\ (i \in IdsOf(hist[k - 2].page.Logs) /\ i \notin IdsOf(hist[k - 1].page.Logs))
                      => i \in Range(ShownIds(k))

\* C3 witness: record 1 is in P1 and P3 but not in P2 and is printed twice,
\* while record 2 is in P2 and P3 and is not printed with P3.
C3_Witness ==
    /\ Len(hist) >= 3
    /\ hist[3].err = ""
    /\ 1 \in IdsOf(hist[1].page.Logs) /\ 1 \notin IdsOf(hist[2].page.Logs)
    /\ 2 \in IdsOf(hist[2].page.Logs)
    /\ IdsOf(hist[3].page.Logs) = {1, 2}
    /\ ShownIds(1) = <<1>> /\ ShownIds(3) = <<1>>
    /\ TimesRendered(1) = 2

\* the run was started with both -from and -to and got past newConfig
FixedMode ==
    /\ pc # "main"
    /\ ~flags.versionFlg /\ flags.apiKey /\ flags.appKey
    /\ flags.fromStr # NoTime /\ flags.toStr # NoTime

\* the run was started with neither -from nor -to and got past newConfig
FollowMode ==
    /\ pc # "main"
    /\ ~flags.versionFlg /\ flags.apiKey /\ flags.appKey
    /\ flags.fromStr = NoTime /\ flags.toStr = NoTime

\* C4 (as stated): in fixed-window mode the driver follows the continuation
\* cursor, so when it halts normally the last page it processed had an empty
\* nextCursor.
C4_HaltsOnlyAfterEmptyCursor ==
    (FixedMode /\ pc = "exit" /\ exitCode = 0) =>
        hist[Len(hist)].page.NextLogId = ""

\* C4 (amended): in fixed-window mode the driver performs exactly one
\* fetch/filter/render cycle and then halts, with no sleep and no request
\* carrying a cursor, whether or not the page's nextCursor is empty.
C4_FixedWindowSingleCycle ==
    (FixedMode /\ Len(hist) >= 1) =>
        /\ pc = "exit"
        /\ Len(hist) = 1
        /\ hist[1].req.startAt = ""
        /\ "sleep" \notin Range(events)
        /\ (hist[1].err = "" => exitCode = 0)

\* C4 witness: a fixed-window run halted normally after one page whose
\* nextCursor was not empty.
C4_Witness ==
    /\ FixedMode /\ pc = "exit" /\ exitCode = 0
    /\ Len(hist) = 1 /\ hist[1].page.NextLogId = "c1"
    /\ Len(hist[1].shown) > 0

\* C5: a query for a duration (from and to given) issues one request,
\* prints at most that page (at most `limit` records), never sleeps, never
\* changes the session state and, if the request and the printing succeed,
\* exits with status 0, whatever nextLogId the response carries.
C5_DurationQuery ==
    FixedMode =>
        /\ events \in {<<>>, <<"fetch">>}
        /\ Len(hist) = Len(events)
        /\ cfg.from = flags.fromStr /\ cfg.to = flags.toStr
        /\ cfg.lastInfo = emptyLogsInfo
        /\ cfg.limit = flags.limit /\ cfg.query = flags.query
        /\ \A k \in 1 .. Len(hist) :
              /\ Len(hist[k].shown) <= flags.limit
              /\ hist[k].err = "" => hist[k].shown = hist[k].page.Logs
              /\ pc = "exit"
              /\ exitCode = IF hist[k].err = "" THEN 0 ELSE 1

\* C5 witness: a duration query ended normally after printing a full page of
\* `limit` records whose nextLogId was set.
C5_Witness ==
    /\ FixedMode /\ pc = "exit" /\ exitCode = 0
    /\ Len(hist) = 1 /\ hist[1].page.NextLogId # ""
    /\ Len(hist[1].shown) = flags.limit
    /\ now = StartTime + RequestLatency

\* position in `events` of the k-th request
FetchPos(k) ==
    CHOOSE i \in 1 .. Len(events) :
        /\ events[i] = "fetch"
        /\ Cardinality({j \in 1 .. i : events[j] = "fetch"}) = k

\* number of sleeps between request k-1 and request k
SleepsBefore(k) ==
    Cardinality({j \in FetchPos(k - 1) .. FetchPos(k) : events[j] = "sleep"})

LastRecord(page) == page.Logs[Len(page.Logs)]

\* request k follows an Advancing transition on a page with records
AdvancedWithRecords(k) ==
    /\ hist[k - 1].page.NextLogId = ""
    /\ Len(hist[k - 1].page.Logs) > 0

\* C6 (as stated): after a page with empty nextCursor and at least one
\* record, the next request's from is at least one millisecond after the
\* timestamp of the last record of that page.
C6_NextFromExcludesLastRecord ==
    \A k \in 2 .. Len(hist) :
        AdvancedWithRecords(k) =>
            Instant(hist[k].req.from) >=
                Instant(LastRecord(hist[k - 1].page).Timestamp) + 1

\* C6 (amended): after such a page the next request's from is the timestamp
\* of the last record itself (src/main.go, the string verbatim), or that
\* timestamp minus interval/2 whole seconds (part_000); the offset is never
\* positive, so the last record stays inside the next window.
C6_NextFromIsLastRecordOrEarlier ==
    \A k \in 2 .. Len(hist) :
        AdvancedWithRecords(k) =>
            LET last == LastRecord(hist[k - 1].page).Timestamp IN
            /\ variant = "main.go" => hist[k].req.from = last
            /\ variant = "part_000" =>
                  Instant(hist[k].req.from) =
                      Instant(last) - (flags.interval \div 2) * Second
            /\ Instant(hist[k].req.from) <= Instant(last)

\* C6 witness: part_000, interval 15: page [1,2] without cursor, record 2 at
\* 93.000 s; the next request starts at 86.000 s, returns record 2 again and
\* the filter drops it.
C6_Witness ==
    /\ variant = "part_000" /\ Len(hist) >= 2
    /\ hist[1].page = [Logs |-> <<logInfo(1), logInfo(2)>>, NextLogId |-> ""]
    /\ hist[2].req.from = <<86, 0>>
    /\ 2 \in IdsOf(hist[2].page.Logs)
    /\ hist[2].err = "" /\ 2 \notin Range(ShownIds(2))

\* C7: when update runs on a page with empty nextCursor, window.to becomes
\* the current time, whether or not the page had records, and if the page
\* had no records window.from is left unchanged.
C7_AdvancingSetsToNow ==
    [][(pc = "update" /\ logs.NextLogId = "") =>
          /\ cfg'.to = formatTime(now)
          /\ (Len(logs.Logs) = 0 => cfg'.from = cfg.from)]_vars

\* C7 witness: the first page was empty with no cursor; after the update the
\* window still starts 30 s before the start and ends at the current time.
C7_Witness ==
    /\ pc = "showLogs" /\ Len(hist) = 1
    /\ hist[1].page = emptyLogsInfo
    /\ cfg.from = formatTime(StartTime - InitialLookback * Second)
    /\ cfg.to = formatTime(now)
    /\ now = StartTime + RequestLatency + flags.interval * Second

\* C8: after a page with non-empty nextCursor, the next request has the same
\* from and to as the request that produced the page and carries exactly
\* that nextCursor as startAt.
C8_PagingKeepsWindow ==
    \A k \in 2 .. Len(hist) :
        hist[k - 1].page.NextLogId # "" =>
            /\ hist[k].req.from = hist[k - 1].req.from
            /\ hist[k].req.to = hist[k - 1].req.to
            /\ hist[k].req.startAt = hist[k - 1].page.NextLogId

\* C8 witness: the first two pages returned the cursors c1 and c2; the third
\* request still has the initial window, although 30 s have passed, and
\* carries startAt = c2.
C8_Witness ==
    /\ Len(hist) >= 3
    /\ hist[1].page.NextLogId = "c1" /\ Len(hist[1].page.Logs) > 0
    /\ hist[2].req.startAt = "c1"
    /\ hist[2].page.NextLogId = "c2"
    /\ hist[3].req.startAt = "c2"
    /\ hist[3].req.from = formatTime(StartTime - InitialLookback * Second)
    /\ hist[3].req.to = formatTime(StartTime)
    /\ hist[3].at >= StartTime + 30 * Second

\* C9 (as stated): no sleep occurs between a fetch that returned a non-empty
\* nextCursor and the continuation fetch that follows it.
C9_NoSleepBetweenPagedFetches ==
    \A k \in 2 .. Len(hist) :
        hist[k - 1].page.NextLogId # "" => SleepsBefore(k) = 0

\* C9 (amended): paging continuations are not issued back-to-back; exactly
\* one interval sleep separates a fetch that returned a non-empty nextCursor
\* from its continuation fetch, as for fetches after an Advancing transition.
C9_OneSleepBeforeContinuation ==
    \A k \in 2 .. Len(hist) :
        hist[k - 1].page.NextLogId # "" => SleepsBefore(k) = 1

\* C9 witness: a continuation request (startAt = c1) was sent after one sleep.
C9_Witness ==
    /\ Len(hist) = 2
    /\ hist[1].page.NextLogId = "c1"
    /\ hist[2].req.startAt = "c1"
    /\ events = <<"fetch", "sleep", "update", "fetch">>

\* C10: in follow mode there is exactly one sleep between any two
\* consecutive requests, and it lasts `interval` seconds: consecutive
\* requests are sent at least `interval` seconds apart.
C10_OneSleepPerRequest ==
    \A k \in 2 .. Len(hist) :
        /\ FollowMode
        /\ SleepsBefore(k) = 1
        /\ hist[k].at - hist[k - 1].at >= flags.interval * Second

\* C10 witness: three requests of a follow run with the default interval,
\* each sent one sleep and one round trip after the previous one.
C10_Witness ==
    /\ FollowMode /\ Len(hist) = 3 /\ flags.interval = DefaultInterval
    /\ hist[2].at = hist[1].at + RequestLatency + DefaultInterval * Second
    /\ hist[3].at = hist[2].at + RequestLatency + DefaultInterval * Second
    /\ Cardinality({j \in 1 .. Len(events) : events[j] = "sleep"}) = 2

\* the records of the k-th page that are new with respect to the page before
NewRecords(k) ==
    SelectSeq(hist[k].page.Logs, LAMBDA l : l.Id \notin IdsOf(PrevLogs(k)))

\* C11: an error from a fetch or from printing is fatal.  The call that
\* failed is the last one of the run, the process has exited with a non-zero
\* status, nothing was printed for a response that could not be fetched or
\* decoded, and a printing error leaves only the records before the failing
\* one on stdout.
C11_ErrorsAreFatal ==
    \A k \in 1 .. Len(hist) :
        hist[k].err # "" =>
            /\ k = Len(hist)
            /\ pc = "exit" /\ exitCode = 1
            /\ events[Len(events)] = "fetch"
            /\ hist[k].err = "fetch" => hist[k].shown = <<>>
            /\ hist[k].err = "render" =>
                  /\ Len(hist[k].shown) < Len(NewRecords(k))
                  /\ hist[k].shown = SubSeq(NewRecords(k), 1, Len(hist[k].shown))

\* C11 witness: the second page [1,2] failed to print at record 2, after
\* record 1 was written; the process exited with status 1.
C11_Witness ==
    /\ Len(hist) = 2 /\ hist[1].err = "" /\ hist[1].page.Logs = <<>>
    /\ hist[2].err = "render"
    /\ IdsOf(hist[2].page.Logs) = {1, 2} /\ ShownIds(2) = <<1>>
    /\ pc = "exit" /\ exitCode = 1

\* the run got past flag.Parse and the -version check
Started == pc # "main" /\ ~flags.versionFlg

\* C12: if DD_API_KEY or DD_APP_KEY is missing, the process exits with a
\* non-zero status at startup and no request is ever issued.
C12_MissingCredentialIsFatal ==
    (Started /\ (~flags.apiKey \/ ~flags.appKey)) =>
        /\ pc = "exit" /\ exitCode = 1
        /\ hist = <<>> /\ events = <<>>
        /\ cfg = NoCfg

\* C12 witness: DD_API_KEY is set, DD_APP_KEY is not; exit status 1, no
\* request.
C12_Witness ==
    /\ Started /\ flags.apiKey /\ ~flags.appKey
    /\ flags.fromStr = NoTime /\ flags.toStr = NoTime
    /\ pc = "exit" /\ exitCode = 1 /\ hist = <<>>

\* both credentials are set and the run got past the -version check
CredentialsOk == Started /\ flags.apiKey /\ flags.appKey

\* C13: mode selection at startup.  Exactly one of from/to: fatal before any
\* request.  Neither: follow mode, and the first request asks for
\* [now-30s, now].  Both: fixed-window mode with exactly the given bounds.
C13_ModeSelection ==
    CredentialsOk =>
        /\ ((flags.fromStr = NoTime) # (flags.toStr = NoTime)) =>
              /\ pc = "exit" /\ exitCode = 1
              /\ hist = <<>> /\ events = <<>>
        /\ (flags.fromStr = NoTime /\ flags.toStr = NoTime) =>
              /\ cfg.follow
              /\ Len(hist) >= 1 =>
                    /\ Instant(hist[1].req.from) = StartTime - 30 * Second
                    /\ Instant(hist[1].req.to) = StartTime
        /\ (flags.fromStr # NoTime /\ flags.toStr # NoTime) =>
              /\ ~cfg.follow
              /\ cfg.from = flags.fromStr /\ cfg.to = flags.toStr
              /\ Len(hist) >= 1 =>
                    /\ hist[1].req.from = flags.fromStr
                    /\ hist[1].req.to = flags.toStr

\* C13 witness: -from given without -to; exit status 1 and no request.
C13_Witness ==
    /\ CredentialsOk
    /\ flags.fromStr = <<60, 0>> /\ flags.toStr = NoTime
    /\ pc = "exit" /\ exitCode = 1 /\ hist = <<>>

\* C14: every request has sort "asc" and the query, limit and window of the
\* session; the first request carries no startAt, and a later request
\* carries startAt exactly when the page fetched just before it had a
\* non-empty nextLogId (that value).
C14_RequestBody ==
    /\ \A k \in 1 .. Len(hist) :
          /\ hist[k].req.sort = "asc"
          /\ hist[k].req.query = flags.query
          /\ hist[k].req.limit = flags.limit
          /\ hist[k].req.startAt = (IF k = 1 THEN "" ELSE hist[k - 1].page.NextLogId)
    /\ (Len(hist) >= 1 /\ pc \in {"sleep", "update", "exit"}) =>
          /\ hist[Len(hist)].req.from = cfg.from
          /\ hist[Len(hist)].req.to = cfg.to

\* C14 witness: page 1 had cursor c1, page 2 had none: request 2 carries
\* startAt = c1 in the same window, request 3 carries none in a new window.
C14_Witness ==
    /\ Len(hist) = 3
    /\ hist[1].req.startAt = ""
    /\ hist[1].page.NextLogId = "c1" /\ hist[2].req.startAt = "c1"
    /\ hist[2].page.NextLogId = "" /\ hist[3].req.startAt = ""
    /\ hist[3].req.to # hist[2].req.to
    /\ hist[3].req.sort = "asc"

\* C15: in every session state and for every request issued, from <= to.
C15_FromNotAfterTo ==
    /\ cfg # NoCfg => Instant(cfg.from) <= Instant(cfg.to)
    /\ \A k \in 1 .. Len(hist) :
          Instant(hist[k].req.from) <= Instant(hist[k].req.to)

\* C16 (as stated): within a follow-mode iteration the session state is
\* updated before the interval sleep: every sleep is directly preceded by
\* an update.
C16_UpdateBeforeSleep ==
    \A j \in 1 .. Len(events) :
        events[j] = "sleep" => (j > 1 /\ events[j - 1] = "update")

\* C16 (amended): within a follow-mode iteration the interval sleep comes
\* directly after the page was fetched, filtered and printed, the session
\* state is updated after the sleep, and the next fetch directly follows the
\* update; so the `to` of a request after an Advancing transition is a time
\* read after the sleep.
C16_SleepThenUpdateThenFetch ==
    /\ \A j \in 1 .. Len(events) :
          /\ events[j] = "sleep" => (j > 1 /\ events[j - 1] = "fetch")
          /\ events[j] = "update" => (j > 1 /\ events[j - 1] = "sleep")
          /\ events[j] = "fetch" => (j = 1 \/ events[j - 1] = "update")
    /\ \A k \in 2 .. Len(hist) :
          hist[k - 1].page.NextLogId = "" =>
              Instant(hist[k].req.to) >= hist[k - 1].at + flags.interval * Second

\* C16 witness: two iterations of the loop; the second request's `to` is
\* the time after the sleep, 15.25 s after the start.
C16_Witness ==
    /\ events = <<"fetch", "sleep", "update", "fetch", "sleep", "update">>
    /\ hist[1].page.NextLogId = ""
    /\ Instant(hist[2].req.to) = StartTime + RequestLatency + 15 * Second
    /\ pc = "showLogs"

\* C17: in follow mode the driver stops only on an error, and every fetch
\* that completed without error is eventually followed by another fetch:
\* no run comes to rest before it has either exited or issued all of the
\* MaxFetches requests the model follows.
C17_FollowNeverStops ==
    /\ [](FollowMode /\ pc = "exit" =>
            Len(hist) >= 1 /\ hist[Len(hist)].err # "")
    /\ <>[](pc = "exit" \/ (pc = "showLogs" /\ Len(hist) = MaxFetches))

\* C17 witness: a follow run in which three fetches completed without error
\* and the driver is on its way to the next one.
C17_Witness ==
    /\ FollowMode /\ Len(hist) >= 3
    /\ \A k \in 1 .. Len(hist) : hist[k].err = ""
    /\ pc = "sleep"

\* C18: the novelty filter loses no log.  Every record id of a page that was
\* fetched and printed without error has been written to stdout at least
\* once, with that page or with an earlier one.
C18_NoLogLost ==
    \A k \in 1 .. Len(hist) :
        hist[k].err = "" =>
            \A i \in IdsOf(hist[k].page.Logs) :
                \E j \in 1 .. k : i \in Range(ShownIds(j))

\* C18 witness: record 1 came with pages 1, 2 and 3 and was skipped twice,
\* yet it is on stdout exactly once, from page 1.
C18_Witness ==
    /\ Len(hist) = 3
    /\ \A k \in 1 .. 3 : hist[k].err = "" /\ 1 \in IdsOf(hist[k].page.Logs)
    /\ ShownIds(1) = <<1>>
    /\ 1 \notin Range(ShownIds(2)) /\ 1 \notin Range(ShownIds(3))
    /\ TimesRendered(1) = 1

\* the k-th answer contains only records inside the requested window
InWindow(k) ==
    \A j \in 1 .. Len(hist[k].page.Logs) :
        /\ Instant(hist[k].req.from) <= Instant(hist[k].page.Logs[j].Timestamp)
        /\ Instant(hist[k].page.Logs[j].Timestamp) <= Instant(hist[k].req.to)

\* C19 (as stated): in follow mode, if the API answers with records inside
\* the requested window, the from of the next request is never earlier than
\* the from of the request before it.
C19_FromNeverMovesBack ==
    \A k \in 2 .. Len(hist) :
        (FollowMode /\ InWindow(k - 1)) =>
            Instant(hist[k].req.from) >= Instant(hist[k - 1].req.from)

\* C19 (amended): under the same assumption, from never moves backwards in
\* src/main.go; in part_000 it may move backwards, by at most interval/2
\* whole seconds per update.
C19_FromMovesBackAtMostHalfInterval ==
    \A k \in 2 .. Len(hist) :
        (FollowMode /\ InWindow(k - 1)) =>
            /\ variant = "main.go" =>
                  Instant(hist[k].req.from) >= Instant(hist[k - 1].req.from)
            /\ variant = "part_000" =>
                  Instant(hist[k].req.from) >=
                      Instant(hist[k - 1].req.from) - (flags.interval \div 2) * Second

\* C19 witness: part_000; the window started at 86.0 s, the answer was
\* record 1 (86.5 s, inside the window), and the next window starts at
\* 79.5 s.
C19_Witness ==
    /\ variant = "part_000" /\ FollowMode /\ Len(hist) = 3
    /\ InWindow(1) /\ InWindow(2)
    /\ hist[2].req.from = <<86, 0>>
    /\ IdsOf(hist[2].page.Logs) = {1} /\ hist[2].page.NextLogId = ""
    /\ hist[3].req.from = <<79, 500>>

\* C20: in follow mode, if the API answers with records inside the
\* requested window in ascending order, then after every Advancing
\* transition the from of the next request is not earlier than the
\* timestamp of any record printed so far.
C20_FromNotBeforeRendered ==
    \A k \in 2 .. Len(hist) :
        (/\ FollowMode
         /\ hist[k - 1].page.NextLogId = ""
         /\ \A j \in 1 .. k - 1 : InWindow(j)) =>
            \A j \in 1 .. k - 1 :
                \A n \in 1 .. Len(hist[j].shown) :
                    Instant(hist[k].req.from) >= Instant(hist[j].shown[n].Timestamp)

\* the run of src/main.go in which C20 fails: page [1,2] with a cursor, an
\* empty final page, and a third request that starts at the initial from
MainGoRewindAfterEmptyFinalPage ==
    /\ variant = "main.go" /\ FollowMode /\ Len(hist) = 3
    /\ hist[1].page = [Logs |-> <<logInfo(1), logInfo(2)>>, NextLogId |-> "c1"]
    /\ hist[2].page = emptyLogsInfo
    /\ InWindow(1)
    /\ hist[3].req.from = formatTime(StartTime - InitialLookback * Second)
    /\ hist[3].page.Logs = <<logInfo(1), logInfo(2)>> /\ InWindow(3)
    /\ ShownIds(3) = <<1, 2>>
====
